---- MODULE Spec2Model ----
(***************************************************************************)
(* State-machine model of web/src/components/auth.tsx: the Auth status     *)
(* indicator and the AuthDialog form (phone number -> access token).       *)
(*                                                                         *)
(* An optional string (string | null) is a sequence of length <= 1:        *)
(* None is <<>> and Some(s) is <<s>>.                                      *)
(***************************************************************************)
EXTENDS Naturals, Sequences, FiniteSets, TLC

VARIABLES
    openaiAPIKey,    \* pgState.openaiAPIKey: None or Some(string)
    showAuthDialog,  \* shared "show dialog" flag
    phoneNumber,     \* form value of the phoneNumber field
    fieldError,      \* message attached to the phoneNumber field ("" = none)
    isSubmitted,     \* form state: handleSubmit has run at least once
    error404,        \* AuthDialog local state
    isBlinking,      \* AuthDialog local state
    blinkTimer,      \* TRUE while the setTimeout of the blink effect is pending
    requests,        \* the onSubmit invocations, in submission order
    keyWrites,       \* history: who dispatched SET_API_KEY, in order
                     \*   (a request index, or 0 for onLogout)
    lastEvent        \* history: the handler that ran last

vars == <<openaiAPIKey, showAuthDialog, phoneNumber, fieldError, isSubmitted,
          error404, isBlinking, blinkTimer, requests, keyWrites, lastEvent>>

----------------------------------------------------------------------------
(* Bounds and input sets *)

MaxRequests == 2

Phones == {"", "09"}
Bodies == {"", "k1", "k2"}
Statuses == {200, 404, 500}

None == <<>>
Some(s) == <<s>>

----------------------------------------------------------------------------
(* Pure helpers *)

RequiredMsg == "Phone number is required"
ManualMsg == "Failed to fetch API key. Please try again."
NoError == ""

NotFound == 404

\* JavaScript truthiness of a string | null: null and "" are falsy.
Truthy(k) == k # None /\ k[1] # ""

\* pgState.openaiAPIKey || ""
OrEmpty(k) == IF Truthy(k) THEN k[1] ELSE ""

MinLen == 1

\* Mutant: the schema without the min(1) constraint.
ValidateOptional(v) == NoError

\* AuthFormSchema: z.string().min(1, {message: "Phone number is required"})
Validate(v) == IF Len(v) >= MinLen THEN NoError ELSE RequiredMsg

\* Reducer of the shared state for {type: "SET_API_KEY", payload}.
SetApiKey(payload) == payload

\* Mutant: the effect sets the field only when a key is present.
PrefillIfSet(oldKey, newKey, value) ==
    IF newKey # oldKey /\ newKey # <<>> /\ newKey[1] # "" THEN newKey[1] ELSE value

\* useEffect(() => form.setValue("phoneNumber", key || ""), [key, form]):
\* runs only when the key differs from the one of the previous render.
Prefill(oldKey, newKey, value) ==
    IF newKey # oldKey THEN OrEmpty(newKey) ELSE value

\* What Auth renders: the status indicator and the dialog's open prop.
AuthRender(key, show) ==
    [indicator |-> Truthy(key),
     masked    |-> IF Truthy(key) THEN key ELSE None,
     clear     |-> Truthy(key),
     dialogOpen |-> show]

NewRequest(phone) ==
    [phone |-> phone, st |-> "pending", status |-> 0, body |-> None, calls |-> 0]

----------------------------------------------------------------------------
Init ==
    /\ openaiAPIKey = None
    /\ showAuthDialog \in BOOLEAN
    /\ phoneNumber = OrEmpty(openaiAPIKey)
    /\ fieldError = NoError
    /\ isSubmitted = FALSE
    /\ error404 = FALSE
    /\ isBlinking = FALSE
    /\ blinkTimer = FALSE
    /\ requests = <<>>
    /\ keyWrites = <<>>
    /\ lastEvent = "init"

\* The user edits the phone-number input (rendered only while the dialog is
\* open).  After a first submit the form re-validates on change.
onChange(v) ==
    /\ showAuthDialog
    /\ phoneNumber' = v
    /\ fieldError' = IF isSubmitted THEN Validate(v) ELSE fieldError
    /\ lastEvent' = "change"
    /\ UNCHANGED <<openaiAPIKey, showAuthDialog, isSubmitted, error404,
                   isBlinking, blinkTimer, requests, keyWrites>>

\* form.handleSubmit(onSubmit): validate, then call onSubmit, which issues
\* the fetch and suspends.
handleSubmit ==
    /\ showAuthDialog
    /\ isSubmitted' = TRUE
    /\ IF Validate(phoneNumber) # NoError
       THEN /\ fieldError' = Validate(phoneNumber)
            /\ requests' = requests
            /\ lastEvent' = "invalid"
       ELSE /\ Len(requests) < MaxRequests
            /\ fieldError' = NoError
            /\ requests' = Append(requests, NewRequest(phoneNumber))
            /\ lastEvent' = "submit"
    /\ UNCHANGED <<openaiAPIKey, showAuthDialog, phoneNumber, error404,
                   isBlinking, blinkTimer, keyWrites>>

\* Mutant: onSubmit without the 404 check.
fetchResolveNoStatusCheck(i, s) ==
    /\ requests[i].st = "pending"
    /\ requests' = [requests EXCEPT ![i].st = "reading", ![i].status = s]
    /\ lastEvent' = "response"
    /\ UNCHANGED <<openaiAPIKey, showAuthDialog, phoneNumber, fieldError,
                   isSubmitted, error404, isBlinking, blinkTimer, keyWrites>>

\* await fetch(...) resolves for request i with status s.
fetchResolve(i, s) ==
    /\ requests[i].st = "pending"
    /\ IF s = NotFound
       THEN /\ requests' = [requests EXCEPT ![i].st = "notfound", ![i].status = s]
            /\ error404' = TRUE
            \* useEffect([error404]) runs only when error404 changed
            /\ isBlinking' = IF error404 THEN isBlinking ELSE TRUE
            /\ blinkTimer' = IF error404 THEN blinkTimer ELSE TRUE
            /\ lastEvent' = "notfound"
       ELSE /\ requests' = [requests EXCEPT ![i].st = "reading", ![i].status = s]
            /\ lastEvent' = "response"
            /\ UNCHANGED <<error404, isBlinking, blinkTimer>>
    /\ UNCHANGED <<openaiAPIKey, showAuthDialog, phoneNumber, fieldError,
                   isSubmitted, keyWrites>>

\* Mutant: the success path dispatches the key but neither closes the dialog
\* nor calls onAuthComplete.
textResolveNoClose(i, b) ==
    /\ requests[i].st = "reading"
    /\ openaiAPIKey' = SetApiKey(<<b>>)
    /\ requests' = [requests EXCEPT ![i].st = "ok", ![i].body = <<b>>]
    /\ phoneNumber' = Prefill(openaiAPIKey, openaiAPIKey', phoneNumber)
    /\ keyWrites' = Append(keyWrites, i)
    /\ lastEvent' = "success"
    /\ UNCHANGED <<showAuthDialog, fieldError, isSubmitted, error404,
                   isBlinking, blinkTimer>>

\* Mutant: the success path keeps a key that is already stored.
textResolveFirstWins(i, b) ==
    /\ requests[i].st = "reading"
    /\ openaiAPIKey' = IF openaiAPIKey # <<>> THEN openaiAPIKey ELSE SetApiKey(<<b>>)
    /\ showAuthDialog' = FALSE
    /\ requests' = [requests EXCEPT ![i].st = "ok", ![i].body = <<b>>,
                                    ![i].calls = @ + 1]
    /\ phoneNumber' = Prefill(openaiAPIKey, openaiAPIKey', phoneNumber)
    /\ keyWrites' = Append(keyWrites, i)
    /\ lastEvent' = "success"
    /\ UNCHANGED <<fieldError, isSubmitted, error404, isBlinking, blinkTimer>>

\* await response.text() resolves for request i with body b.
textResolve(i, b) ==
    /\ requests[i].st = "reading"
    /\ openaiAPIKey' = SetApiKey(Some(b))
    /\ showAuthDialog' = FALSE
    /\ requests' = [requests EXCEPT ![i].st = "ok", ![i].body = Some(b),
                                    ![i].calls = @ + 1]
    /\ phoneNumber' = Prefill(openaiAPIKey, openaiAPIKey', phoneNumber)
    /\ keyWrites' = Append(keyWrites, i)
    /\ lastEvent' = "success"
    /\ UNCHANGED <<fieldError, isSubmitted, error404, isBlinking, blinkTimer>>

\* Mutant: the catch block also closes the dialog.
fetchRejectCloses(i) ==
    /\ requests[i].st \in {"pending", "reading"}
    /\ requests' = [requests EXCEPT ![i].st = "threw"]
    /\ fieldError' = ManualMsg
    /\ showAuthDialog' = FALSE
    /\ lastEvent' = "threw"
    /\ UNCHANGED <<openaiAPIKey, phoneNumber, isSubmitted,
                   error404, isBlinking, blinkTimer, keyWrites>>

\* Either await of request i rejects: the catch block.
fetchReject(i) ==
    /\ requests[i].st \in {"pending", "reading"}
    /\ requests' = [requests EXCEPT ![i].st = "threw"]
    /\ fieldError' = ManualMsg
    /\ lastEvent' = "threw"
    /\ UNCHANGED <<openaiAPIKey, showAuthDialog, phoneNumber, isSubmitted,
                   error404, isBlinking, blinkTimer, keyWrites>>

\* Mutant: onLogout without setShowAuthDialog(true).
onLogoutNoReopen ==
    /\ AuthRender(openaiAPIKey, showAuthDialog).clear
    /\ openaiAPIKey' = SetApiKey(<<>>)
    /\ phoneNumber' = Prefill(openaiAPIKey, openaiAPIKey', phoneNumber)
    /\ keyWrites' = Append(keyWrites, 0)
    /\ lastEvent' = "clear"
    /\ UNCHANGED <<showAuthDialog, fieldError, isSubmitted, error404,
                   isBlinking, blinkTimer, requests>>

\* Click on Clear (rendered only with the status indicator).
onLogout ==
    /\ AuthRender(openaiAPIKey, showAuthDialog).clear
    /\ openaiAPIKey' = SetApiKey(None)
    /\ showAuthDialog' = TRUE
    /\ phoneNumber' = Prefill(openaiAPIKey, openaiAPIKey', phoneNumber)
    /\ keyWrites' = Append(keyWrites, 0)
    /\ lastEvent' = "clear"
    /\ UNCHANGED <<fieldError, isSubmitted, error404, isBlinking, blinkTimer,
                   requests>>

\* Mutant: closing the dialog also clears the stored key.
onOpenChangeResetsKey(open) ==
    /\ showAuthDialog' = open
    /\ openaiAPIKey' = IF open THEN openaiAPIKey ELSE <<>>
    /\ phoneNumber' = Prefill(openaiAPIKey, openaiAPIKey', phoneNumber)
    /\ lastEvent' = IF open = showAuthDialog THEN lastEvent
                    ELSE IF open THEN "open" ELSE "close"
    /\ UNCHANGED <<fieldError, isSubmitted, error404, isBlinking, blinkTimer,
                   requests, keyWrites>>

\* The dialog's onOpenChange(open), wired to setShowAuthDialog.  Setting the
\* flag to the value it has changes nothing.
onOpenChange(open) ==
    /\ showAuthDialog' = open
    /\ lastEvent' = IF open = showAuthDialog THEN lastEvent
                    ELSE IF open THEN "open" ELSE "close"
    /\ UNCHANGED <<openaiAPIKey, phoneNumber, fieldError, isSubmitted,
                   error404, isBlinking, blinkTimer, requests, keyWrites>>

\* The 1000 ms timer of the blink effect fires.
blinkTimeout ==
    /\ blinkTimer
    /\ isBlinking' = FALSE
    /\ blinkTimer' = FALSE
    /\ lastEvent' = "timer"
    /\ UNCHANGED <<openaiAPIKey, showAuthDialog, phoneNumber, fieldError,
                   isSubmitted, error404, requests, keyWrites>>

Next ==
    \/ \E v \in Phones : onChange(v)
    \/ handleSubmit
    \/ \E i \in DOMAIN requests : \E s \in Statuses : fetchResolve(i, s)
    \/ \E i \in DOMAIN requests : \E b \in Bodies : textResolve(i, b)
    \/ \E i \in DOMAIN requests : fetchReject(i)
    \/ onLogout
    \/ \E open \in BOOLEAN : onOpenChange(open)
    \/ blinkTimeout

Spec == Init /\ [][Next]_vars

\* The browser fires a pending timeout.
FairSpec == Spec /\ WF_vars(blinkTimeout)

----------------------------------------------------------------------------
(* Step predicates used by the properties below *)

\* Request i got its response headers in this step, with status s.
Responded(i, s) ==
    /\ requests[i].st = "pending"
    /\ requests'[i].st \in {"notfound", "reading"}
    /\ requests'[i].status = s

\* Request i finished the success path of onSubmit in this step.
Succeeded(i) == requests[i].st = "reading" /\ requests'[i].st = "ok"

\* Request i ended in the catch block in this step.
Threw(i) == requests[i].st \in {"pending", "reading"} /\ requests'[i].st = "threw"

\* handleSubmit ran in this step.
SubmitEvent == lastEvent' \in {"submit", "invalid"}

\* onLogout ran in this step.
ClearEvent == keyWrites' = Append(keyWrites, 0)

\* onOpenChange changed the flag in this step.
OpenCloseEvent == lastEvent' \in {"open", "close"}

LastWrite == keyWrites[Len(keyWrites)]

----------------------------------------------------------------------------
\* C1: when a response with a status other than 404 and body b resolves, the
\* shared API key becomes exactly b, the dialog flag becomes false and
\* onAuthComplete is called exactly once for that response (and never for a
\* request that has not succeeded).
C1_SuccessStoresBody ==
    /\ [][\A i \in DOMAIN requests : Succeeded(i) =>
            /\ requests'[i].status # NotFound
            /\ openaiAPIKey' = requests'[i].body
            /\ showAuthDialog' = FALSE
            /\ requests'[i].calls = requests[i].calls + 1]_vars
    /\ [](\A i \in DOMAIN requests :
            requests[i].calls = IF requests[i].st = "ok" THEN 1 ELSE 0)

\* A response with status 500 and body "k1" has resolved.
C1_Witness ==
    \E i \in DOMAIN requests :
        /\ requests[i].st = "ok" /\ requests[i].status = 500
        /\ requests[i].body = Some("k1") /\ requests[i].calls = 1
        /\ lastEvent = "success" /\ LastWrite = i
        /\ openaiAPIKey = Some("k1") /\ ~showAuthDialog

\* C2: handling a 404 response sets error404, leaves the dialog flag and the
\* shared API key unchanged, dispatches nothing and does not call
\* onAuthComplete.
C2_NotFoundKeepsState ==
    [][\A i \in DOMAIN requests : Responded(i, NotFound) =>
            /\ error404'
            /\ requests'[i].st = "notfound"
            /\ showAuthDialog' = showAuthDialog
            /\ openaiAPIKey' = openaiAPIKey
            /\ keyWrites' = keyWrites
            /\ requests'[i].calls = 0]_vars

\* A 404 has just been handled with the dialog open.
C2_Witness ==
    /\ lastEvent = "notfound" /\ error404 /\ showAuthDialog
    /\ \E i \in DOMAIN requests : requests[i].st = "notfound"

\* C3: when a request throws, the shared API key and the dialog flag are
\* unchanged (an open dialog stays open), onAuthComplete is not called and the
\* phoneNumber field carries the manual message; the key is dispatched by
\* onSubmit only on the success path.
C3_ThrowKeepsState ==
    /\ [][\A i \in DOMAIN requests : Threw(i) =>
            /\ showAuthDialog' = showAuthDialog
            /\ openaiAPIKey' = openaiAPIKey
            /\ keyWrites' = keyWrites
            /\ requests'[i].calls = 0
            /\ fieldError' = ManualMsg]_vars
    /\ [](\A n \in DOMAIN keyWrites :
            keyWrites[n] # 0 => requests[keyWrites[n]].st = "ok")

\* A request has just thrown while the dialog was open.
C3_Witness ==
    /\ lastEvent = "threw" /\ showAuthDialog /\ fieldError = ManualMsg
    /\ \E i \in DOMAIN requests : requests[i].st = "threw"

\* C4: a submit with an empty phone-number field sets the "required" message,
\* issues no request and changes neither the shared API key nor the dialog
\* flag; every issued request carries a non-empty phone number.
C4_EmptyPhoneBlocked ==
    /\ [][(SubmitEvent /\ phoneNumber = "") =>
            /\ fieldError' = RequiredMsg
            /\ requests' = requests
            /\ openaiAPIKey' = openaiAPIKey
            /\ showAuthDialog' = showAuthDialog]_vars
    /\ [](\A i \in DOMAIN requests : requests[i].phone # "")

\* An empty field has just been submitted, after a request had been issued.
C4_Witness ==
    /\ lastEvent = "invalid" /\ phoneNumber = "" /\ fieldError = RequiredMsg
    /\ Len(requests) = 1

\* C5: the status indicator (masked key and Clear) is rendered iff the shared
\* API key is a non-empty string; Clear sets the key to null and the dialog
\* flag to true, after which the indicator is hidden and the dialog visible.
C5_IndicatorAndClear ==
    /\ [](LET r == AuthRender(openaiAPIKey, showAuthDialog) IN
            /\ r.indicator <=> (openaiAPIKey # None /\ Len(openaiAPIKey[1]) > 0)
            /\ r.clear <=> r.indicator
            /\ r.indicator => r.masked = openaiAPIKey)
    /\ [][ClearEvent =>
            /\ AuthRender(openaiAPIKey, showAuthDialog).indicator
            /\ openaiAPIKey' = None
            /\ showAuthDialog' = TRUE
            /\ ~AuthRender(openaiAPIKey', showAuthDialog').indicator
            /\ AuthRender(openaiAPIKey', showAuthDialog').dialogOpen]_vars

\* Clear has just been activated on a stored key.
C5_Witness ==
    /\ lastEvent = "clear" /\ openaiAPIKey = None /\ showAuthDialog
    /\ Len(keyWrites) = 2 /\ LastWrite = 0
    /\ requests[keyWrites[1]].body = Some("k1")

\* C6: overlapping submissions are possible, and the shared API key is the
\* body of the response that resolved last, whatever the submission order.
C6_LastResolvedWins ==
    (keyWrites # <<>> /\ LastWrite # 0) =>
        /\ requests[LastWrite].st = "ok"
        /\ openaiAPIKey = requests[LastWrite].body

\* Two overlapping requests resolved in the reverse of their submission
\* order with different bodies; the key is the body of the first-submitted,
\* last-resolved one.
C6_Witness ==
    /\ Len(requests) = 2 /\ keyWrites = <<2, 1>>
    /\ requests[1].body = Some("k1") /\ requests[2].body = Some("k2")
    /\ openaiAPIKey = Some("k1")

\* C7: open and close events never modify the shared API key and issue no
\* request; an opening takes the flag from false to true and the close that
\* follows it brings the flag back to false, its value before the opening.
C7_OpenCloseFrame ==
    /\ [][OpenCloseEvent =>
            /\ openaiAPIKey' = openaiAPIKey
            /\ keyWrites' = keyWrites
            /\ requests' = requests]_vars
    /\ [][lastEvent' = "open" => (~showAuthDialog /\ showAuthDialog')]_vars
    /\ [][(lastEvent = "open" /\ lastEvent' = "close") => ~showAuthDialog']_vars

\* The dialog was reopened on a stored key and closed again.
C7_Witness ==
    /\ lastEvent = "close" /\ ~showAuthDialog
    /\ openaiAPIKey = Some("k1") /\ Len(requests) = 1

\* C8: the error flag is never cleared by the timer, and after a successful
\* submission or a dialog reset (close, then reopen) the error flag is false.
C8_ErrorClearedOnSuccessOrReset ==
    /\ [][lastEvent' = "timer" => error404' = error404]_vars
    /\ [][(\E i \in DOMAIN requests : Succeeded(i)) => ~error404']_vars
    /\ [][(lastEvent = "close" /\ lastEvent' = "open") => ~error404']_vars

\* C9: after every 404 response the blink flag is active and the error flag
\* true; the timer ends the blink while the error flag stays true; the blink
\* flag is never active while the error flag is false.
C9_BlinkOnEvery404 ==
    /\ [][\A i \in DOMAIN requests : Responded(i, NotFound) =>
            (isBlinking' /\ error404')]_vars
    /\ [][lastEvent' = "timer" => (~isBlinking' /\ error404')]_vars
    /\ [](isBlinking => error404)

\* The parts of C9 that the code does satisfy: the first 404 starts the blink,
\* the blink always ends, and it never shows without the error flag.
C9_FirstBlinkEnds ==
    /\ [][\A i \in DOMAIN requests : (Responded(i, NotFound) /\ ~error404) =>
            (isBlinking' /\ error404')]_vars
    /\ [](isBlinking => error404)
    /\ (isBlinking ~> (~isBlinking /\ error404))

\* C10 as stated: after every successful submission with body b the field
\* holds b.
C10_FieldHoldsBody ==
    [][\A i \in DOMAIN requests : Succeeded(i) =>
            Some(phoneNumber') = requests'[i].body]_vars

\* C10 amended: whenever the shared API key changes the field is set to the
\* new key (or "" for null), so a successful submission whose body differs
\* from the stored key leaves the body in the field; after Clear the field is
\* empty and an immediate resubmit fails validation and issues no request.
C10_PrefillOnChange ==
    /\ [][openaiAPIKey' # openaiAPIKey =>
            phoneNumber' = (IF openaiAPIKey' = None THEN "" ELSE openaiAPIKey'[1])]_vars
    /\ [][\A i \in DOMAIN requests :
            (Succeeded(i) /\ requests'[i].body # openaiAPIKey) =>
                Some(phoneNumber') = requests'[i].body]_vars
    /\ [][ClearEvent => phoneNumber' = ""]_vars
    /\ [][(lastEvent = "clear" /\ SubmitEvent) =>
            /\ lastEvent' = "invalid"
            /\ fieldError' = RequiredMsg
            /\ requests' = requests]_vars

\* A resubmit right after Clear was rejected.
C10_Witness ==
    /\ lastEvent = "invalid" /\ phoneNumber = "" /\ fieldError = RequiredMsg
    /\ keyWrites # <<>> /\ LastWrite = 0
    /\ openaiAPIKey = None /\ showAuthDialog
    /\ \E i \in DOMAIN requests : requests[i].st = "ok" /\ requests[i].phone = "09"

====
